---- MODULE Spec2Model ----
(***************************************************************************)
(* Historical price backfill of the Bitcoin monitor: gap detection,        *)
(* the multi-source backfill run and the retrying HTTP client.             *)
(*                                                                         *)
(* Dates.  A datetime.date is modelled by its day number counted from the  *)
(* first day of the target range (day 1 = date(start_year, 1, 1)), so      *)
(* date arithmetic is integer arithmetic.  A date STRING (the keys of      *)
(* price_history, the members of `existing`, the "date" field of a         *)
(* record) is modelled by the triple <<year, month, day>> that             *)
(* date.isoformat() prints; strings are compared field by field, as        *)
(* fixed-width ISO strings compare.                                        *)
(***************************************************************************)
EXTENDS Integers, Sequences, FiniteSets, TLC

VARIABLES
    \* ---- get_gaps called on its own (SpecGaps) ----
    g_pc,          \* "input" | "done"
    g_start,       \* start_date
    g_end,         \* end_date
    g_existing,    \* existing: set of date strings
    g_gaps,        \* the returned list of (gap_start, gap_end)
    \* ---- HTTPClient._request (SpecHttp) ----
    h_pc,          \* "idle" | "attempt" | "returned" | "raised"
    h_max_retries, \* self.max_retries
    h_attempt,     \* the loop variable `attempt`
    h_calls,       \* session.request calls made by the request
    h_waits,       \* rate_limiter.wait() calls made by the request
    h_sleeps,      \* the time.sleep durations of the request, in order
    h_responses,   \* what the transport answered, attempt by attempt
    h_result,      \* the returned data
    h_error,       \* last_error / the raised exception
    h_rate_limiter,\* self.rate_limiter is set
    h_cache_ttl,   \* self.cache_ttl, in seconds
    h_cache,       \* self._cache: key -> [data, time]
    h_now,         \* time.time(), in seconds
    h_params,      \* the params of the request being served
    h_requests,    \* how many requests the client was given
    h_served,      \* per request: payload and time of its last 200 answer
    h_entry,       \* h_served and h_now as they were when the request came in
    \* ---- BackfillOrchestrator.validate called on its own (SpecValidate) ----
    v_pc,          \* "input" | "done"
    v_records,     \* the list passed to validate
    v_valid,       \* the list validate returned
    \* ---- RateLimiter shared by threads (SpecLimiter) ----
    l_max_tokens,  \* self.max_tokens = calls_per_minute
    l_tokens,      \* self.tokens, in 1/TicksPerToken of a token
    l_last_time,   \* self.last_time, in ticks
    l_lock,        \* the thread holding self._lock, NoThread when free
    l_now,         \* time.monotonic(), in ticks
    l_pc,          \* per thread: "idle" | "waiting" | "locked" | "refilled"
                   \*             | "consuming" | "sleeping"
    l_wake,        \* per thread: the time its time.sleep ends
    l_slept,       \* per thread: the sleep_time of its last wait()
    l_calls,       \* the wait() calls made so far, by all threads
    l_returns,     \* the times at which wait() calls returned, in order
    l_delayed,     \* time has passed while a thread was running (not
                   \* sleeping) between acquiring and releasing the lock
    \* ---- TTLCache (SpecCache) ----
    c_store,       \* self._store: key -> [value, expires]
    c_now,         \* time.time(), in seconds
    c_sets,        \* per key: value, time and ttl of the last set() that was
                   \* not invalidated or cleared since
    c_got,         \* the last get(): its key, what it returned, whether the
                   \* key was out of the store after it, and what c_sets
                   \* held for the key
    \* ---- BackfillOrchestrator.run and what it works on (SpecRun) ----
    db,            \* price_history: date string -> price_usd
    world,         \* the rows the sources hold: day -> price, 0 for no row,
                   \* Unknown until an adapter is first asked for the day
    yf_down,       \* the yfinance source is unreachable (ticker.history raises)
    csv_down,      \* the seed CSV cannot be read (open/parse raises)
    yf_lead,       \* rows ticker.history returns ahead of the start it is given
    r_earliest,    \* YFinanceClient.EARLIEST_DATE as a day of the calendar
    r_pc,          \* "idle" | "yfinance" | "csv" | "reconcile" | "done" | "raised"
    r_run,         \* how many times run() was entered
    r_existing,    \* the local `existing`
    r_gaps,        \* the local `gaps`
    r_i,           \* position of the running for loop in `gaps`
    r_dates_added, \* the local `dates_added`
    r_result,      \* the BackfillResult being built / returned
    r_prev,        \* the BackfillResult the previous run returned
    r_db0,         \* price_history as it was when the run was entered
    r_written,     \* date strings passed to save_price_history by the run
    r_visited,     \* <<source, k>>: the source's loop body ran for gaps[k]
    r_failed,      \* <<source, k>>: an exception was raised there
    r_faults,      \* how many persistence calls have raised so far
    r_step,        \* the last fetch step: the list handed to validate, the
                   \* list handed to save_price_history, `existing` before
    \* ---- Database.get_price_gaps beside get_gaps (SpecGaps) ----
    g_db_pc,       \* "parked" | "input" | "done"
    g_price_gaps,  \* what Database.get_price_gaps returned
    \* ---- YFinanceClient.get_daily_prices called on its own (SpecAdapter) ----
    a_pc,          \* "parked" | "input" | "done"
    a_start,       \* start_date
    a_end,         \* end_date
    a_today,       \* date.today() at the call
    a_query,       \* <<start, end>> ticker.history was asked for, or NoQuery
    a_records,     \* the list the call returned
    \* ---- the price_history table under save_price_history (SpecStore) ----
    t_pc,          \* "parked" | "open"
    t_rows,        \* the rows of the table: [id, date, price_usd]
    t_next_id,     \* the next AUTOINCREMENT id
    t_saves,       \* how many save_price_history calls were made
    t_batch,       \* the records of the last call
    t_before       \* the rows before the last call

gapVars == <<g_pc, g_start, g_end, g_existing, g_gaps, g_db_pc, g_price_gaps>>

httpVars == <<h_pc, h_max_retries, h_attempt, h_calls, h_waits, h_sleeps,
              h_responses, h_result, h_error, h_rate_limiter, h_cache_ttl,
              h_cache, h_now, h_params, h_requests, h_served, h_entry>>

worldVars == <<world, yf_down, csv_down, yf_lead, r_earliest>>

runLocals == <<r_pc, r_run, r_existing, r_gaps, r_i, r_dates_added,
               r_result, r_prev, r_db0, r_written, r_visited, r_failed, r_faults,
               r_step>>

runVars == <<db, worldVars, runLocals>>

adapterVars == <<a_pc, a_start, a_end, a_today, a_query, a_records>>

storeVars == <<t_pc, t_rows, t_next_id, t_saves, t_batch, t_before>>

validateVars == <<v_pc, v_records, v_valid>>

limiterVars == <<l_max_tokens, l_tokens, l_last_time, l_lock, l_now, l_pc,
                 l_wake, l_slept, l_calls, l_returns, l_delayed>>

cacheVars == <<c_store, c_now, c_sets, c_got>>

vars == <<gapVars, httpVars, runVars, validateVars, limiterVars, cacheVars,
          adapterVars, storeVars>>

\* What the steps of one component leave alone: the other components.
gapFrame == <<httpVars, runVars, validateVars, limiterVars, cacheVars,
              adapterVars, storeVars>>

httpFrame == <<gapVars, runVars, validateVars, limiterVars, cacheVars,
               adapterVars, storeVars>>

runFrame == <<gapVars, httpVars, validateVars, limiterVars, cacheVars,
              adapterVars, storeVars>>

validateFrame == <<gapVars, httpVars, runVars, limiterVars, cacheVars,
                   adapterVars, storeVars>>

limiterFrame == <<gapVars, httpVars, runVars, validateVars, cacheVars,
                  adapterVars, storeVars>>

cacheFrame == <<gapVars, httpVars, runVars, validateVars, limiterVars,
                adapterVars, storeVars>>

\* The adapter called on its own reads the sources and changes nothing.
adapterFrame == <<gapVars, httpVars, runVars, validateVars, limiterVars,
                  cacheVars, storeVars>>

\* save_price_history called on its own changes the table only.
storeFrame == <<gapVars, httpVars, worldVars, runLocals, validateVars,
                limiterVars, cacheVars, adapterVars>>

----------------------------------------------------------------------------
(* Bounds of the model *)

\* Number of calendar days get_gaps is exercised on in SpecGaps.
GapDays == 7

\* Largest max_retries an HTTPClient is built with in SpecHttp.
MaxRetries == 3

\* Number of days from target_start to target_end (today) in SpecRun.
RunDays == 7

\* Where EARLIEST_DATE falls in that calendar when start_year lies before
\* it (for a later start_year it lies before day 1 and acts as day 1).
EarliestOffset == 4

\* How many calls of the persistence layer raise in one behaviour of SpecRun.
MaxFaults == 1

\* How many rows of the sources carry a price beyond the sanity cap.
MaxBadRows == 1

----------------------------------------------------------------------------
(* The variables of the components a specification does not exercise keep  *)
(* these values.                                                           *)

NoError == [type |-> "none", status |-> 0]

GapsParked ==
    /\ g_pc = "parked"
    /\ g_start = 1
    /\ g_end = 1
    /\ g_existing = {}
    /\ g_gaps = <<>>
    /\ g_db_pc = "parked"
    /\ g_price_gaps = <<>>

\* No ticker.history request was made.
NoQuery == <<>>

AdapterParked ==
    /\ a_pc = "parked"
    /\ a_start = 1
    /\ a_end = 1
    /\ a_today = 1
    /\ a_query = NoQuery
    /\ a_records = <<>>

StoreParked ==
    /\ t_pc = "parked"
    /\ t_rows = <<>>
    /\ t_next_id = 1
    /\ t_saves = 0
    /\ t_batch = <<>>
    /\ t_before = <<>>

\* BackfillResult()
NewResult ==
    [dates_added |-> 0, date_range |-> <<>>, sources_used |-> <<>>,
     gaps_remaining |-> <<>>, errors |-> <<>>]

ValidateParked ==
    /\ v_pc = "parked"
    /\ v_records = <<>>
    /\ v_valid = <<>>

LimiterParked ==
    /\ l_max_tokens = 0
    /\ l_tokens = 0
    /\ l_last_time = 0
    /\ l_lock = 0
    /\ l_now = 0
    /\ l_pc = <<>>
    /\ l_wake = <<>>
    /\ l_slept = <<>>
    /\ l_calls = 0
    /\ l_returns = <<>>
    /\ l_delayed = FALSE

\* Python's None where a cached value is expected.
NoValue == "None"

NoGet == [key |-> "", value |-> NoValue, removed |-> FALSE, had |-> <<>>]

CacheParked ==
    /\ c_store = <<>>
    /\ c_now = 0
    /\ c_sets = <<>>
    /\ c_got = NoGet

DbParked == db = <<>>

SourcesParked ==
    /\ world = <<>>
    /\ yf_down = FALSE
    /\ csv_down = FALSE
    /\ yf_lead = 0
    /\ r_earliest = 1

\* No gap was fetched yet.
NoStep == [input |-> <<>>, saved |-> <<>>, existing |-> {}]

RunLocalsParked ==
    /\ r_pc = "parked"
    /\ r_run = 0
    /\ r_existing = {}
    /\ r_gaps = <<>>
    /\ r_i = 0
    /\ r_dates_added = 0
    /\ r_result = NewResult
    /\ r_prev = NewResult
    /\ r_db0 = <<>>
    /\ r_written = {}
    /\ r_visited = {}
    /\ r_failed = {}
    /\ r_faults = 0
    /\ r_step = NoStep

RunParked == DbParked /\ SourcesParked /\ RunLocalsParked

HttpParked ==
    /\ h_pc = "parked"
    /\ h_max_retries = 0
    /\ h_attempt = 0
    /\ h_calls = 0
    /\ h_waits = 0
    /\ h_sleeps = <<>>
    /\ h_responses = <<>>
    /\ h_result = <<>>
    /\ h_error = NoError
    /\ h_rate_limiter = FALSE
    /\ h_cache_ttl = 0
    /\ h_cache = <<>>
    /\ h_now = 0
    /\ h_params = <<>>
    /\ h_requests = 0
    /\ h_served = <<>>
    /\ h_entry = [served |-> <<>>, now |-> 0]

----------------------------------------------------------------------------
(* Dates and date strings *)

\* run(start_year=2013): the year of day 1.
StartYear == 2013

\* Python's None where a date is expected (no day has a negative number).
NoDate == 0 - 1

MonthDays == <<31, 28, 31, 30, 31, 30, 31, 31, 30, 31, 30, 31>>

RECURSIVE MonthDay(_, _)
MonthDay(m, d) ==
    IF m = 12 \/ d <= MonthDays[m] THEN <<m, d>> ELSE MonthDay(m + 1, d - MonthDays[m])

\* date.isoformat() / str(date): "YYYY-MM-DD" as <<YYYY, MM, DD>>.
IsoFormat(d) ==
    IF d < 1 THEN <<StartYear - 1, 12, 31 + d>>
    ELSE LET md == MonthDay(1, d) IN <<StartYear, md[1], md[2]>>

\* s < t for two date strings (Python str comparison of ISO strings).
StrLess(s, t) ==
    \/ s[1] < t[1]
    \/ s[1] = t[1] /\ s[2] < t[2]
    \/ s[1] = t[1] /\ s[2] = t[2] /\ s[3] < t[3]

----------------------------------------------------------------------------
(* BackfillOrchestrator.get_gaps *)

GapQualifiesShort(gap_start, gap_len) == gap_start # NoDate /\ gap_len >= 2

GapQualifiesLong(gap_start, gap_len) == gap_start # NoDate /\ gap_len > 3

\* `if gap_start and gap_len >= 3` (a date object is always truthy).
GapQualifies(gap_start, gap_len) == gap_start # NoDate /\ gap_len >= 3

TrailingGapDropped(gaps, gap_start, gap_len, end_date) == gaps

\* "Handle trailing gap": the lines after the while loop.
TrailingGap(gaps, gap_start, gap_len, end_date) ==
    IF GapQualifies(gap_start, gap_len)
    THEN Append(gaps, <<gap_start, end_date>>)
    ELSE gaps

\* The while loop of get_gaps, one iteration per day `current`.
RECURSIVE GapWalk(_, _, _, _, _, _)
GapWalk(current, end_date, existing, gap_start, gap_len, gaps) ==
    IF current > end_date
    THEN TrailingGap(gaps, gap_start, gap_len, end_date)
    ELSE IF IsoFormat(current) \notin existing
         THEN GapWalk(current + 1, end_date, existing,
                      IF gap_start = NoDate THEN current ELSE gap_start,
                      gap_len + 1, gaps)
         ELSE GapWalk(current + 1, end_date, existing, NoDate, 0,
                      IF GapQualifies(gap_start, gap_len)
                      THEN Append(gaps, <<gap_start, current - 1>>)
                      ELSE gaps)

get_gaps(start_date, end_date, existing) ==
    GapWalk(start_date, end_date, existing, NoDate, 0, <<>>)

----------------------------------------------------------------------------
(* Database.get_price_gaps *)

\* Python's None where a date string is expected.
NoneStr == <<0>>

RECURSIVE DaysBefore(_)
DaysBefore(m) == IF m = 1 THEN 0 ELSE MonthDays[m - 1] + DaysBefore(m - 1)

\* date.fromisoformat(s), as a day of the calendar.
FromIsoFormat(s) ==
    IF s[1] = StartYear THEN DaysBefore(s[2]) + s[3] ELSE s[3] - 31

\* SELECT date FROM price_history WHERE date BETWEEN ? AND ?, as a set.
DatesBetween(table, start_date, end_date) ==
    {s \in DOMAIN table : ~StrLess(s, start_date) /\ ~StrLess(end_date, s)}

DbGapQualifiesLong(gap_start, gap_len, max_gap_days) ==
    gap_start # NoneStr /\ gap_start # <<>> /\ gap_len > max_gap_days

\* `if gap_start and gap_len >= max_gap_days` (gap_start is None or a
\* string; the empty string is falsy as well).
DbGapQualifies(gap_start, gap_len, max_gap_days) ==
    gap_start # NoneStr /\ gap_start # <<>> /\ gap_len >= max_gap_days

\* The while loop of get_price_gaps and the lines after it.
RECURSIVE DbGapWalk(_, _, _, _, _, _, _, _)
DbGapWalk(current, end, end_date, existing, max_gap_days, gap_start, gap_len, gaps) ==
    IF current > end
    THEN IF DbGapQualifies(gap_start, gap_len, max_gap_days)
         THEN Append(gaps, <<gap_start, end_date>>)
         ELSE gaps
    ELSE LET ds == IsoFormat(current) IN
         IF ds \notin existing
         THEN DbGapWalk(current + 1, end, end_date, existing, max_gap_days,
                        IF gap_start = NoneStr THEN ds ELSE gap_start,
                        gap_len + 1, gaps)
         ELSE DbGapWalk(current + 1, end, end_date, existing, max_gap_days,
                        NoneStr, 0,
                        IF DbGapQualifies(gap_start, gap_len, max_gap_days)
                        THEN Append(gaps, <<gap_start, IsoFormat(current - 1)>>)
                        ELSE gaps)

get_price_gaps(table, start_date, end_date, max_gap_days) ==
    DbGapWalk(FromIsoFormat(start_date), FromIsoFormat(end_date), end_date,
              DatesBetween(table, start_date, end_date), max_gap_days,
              NoneStr, 0, <<>>)

----------------------------------------------------------------------------
(* SpecGaps: get_gaps applied to every range and every set of existing     *)
(* dates of a GapDays-day calendar.                                        *)

GapCalendar == 1..GapDays

GapsInit ==
    /\ g_pc = "input"
    /\ g_start \in GapCalendar
    /\ g_end \in GapCalendar
    /\ g_existing \in SUBSET {IsoFormat(d) : d \in GapCalendar}
    /\ g_gaps = <<>>
    /\ g_db_pc = "input"
    /\ g_price_gaps = <<>>
    /\ HttpParked
    /\ RunParked
    /\ ValidateParked
    /\ LimiterParked
    /\ CacheParked
    /\ AdapterParked
    /\ StoreParked

GetGapsCall ==
    /\ g_pc = "input"
    /\ g_gaps' = get_gaps(g_start, g_end, g_existing)
    /\ g_pc' = "done"
    /\ UNCHANGED <<g_start, g_end, g_existing, g_db_pc, g_price_gaps>>
    /\ UNCHANGED gapFrame

\* A price_history table holding the dates of `existing`.
TableOf(existing) == [s \in existing |-> 100]

\* db.get_price_gaps(str(start), str(end)) on the table that holds the
\* dates get_gaps is given (max_gap_days is left at its default, 3).
DbGetPriceGapsCall ==
    /\ g_db_pc = "input"
    /\ g_price_gaps' = get_price_gaps(TableOf(g_existing), IsoFormat(g_start),
                                      IsoFormat(g_end), 3)
    /\ g_db_pc' = "done"
    /\ UNCHANGED <<g_pc, g_start, g_end, g_existing, g_gaps>>
    /\ UNCHANGED gapFrame

GapsNext == GetGapsCall \/ DbGetPriceGapsCall

SpecGaps == GapsInit /\ [][GapsNext]_vars

----------------------------------------------------------------------------
(* Claims about get_gaps *)

GapRange == g_start..g_end

\* The calendar days of the requested range that `existing` holds.
ExistingDays == {d \in GapRange : IsoFormat(d) \in g_existing}

\* The calendar days the returned gaps cover.
GapDaysCovered ==
    {d \in GapRange : \E i \in 1..Len(g_gaps) : g_gaps[i][1] <= d /\ d <= g_gaps[i][2]}

\* The maximal runs of consecutive missing days of the range.
MissingRuns ==
    {r \in GapRange \X GapRange :
        /\ r[1] <= r[2]
        /\ \A d \in r[1]..r[2] : d \notin ExistingDays
        /\ (r[1] = g_start \/ (r[1] - 1) \in ExistingDays)
        /\ (r[2] = g_end \/ (r[2] + 1) \in ExistingDays)}

RunLength(r) == r[2] - r[1] + 1

\* C1: every range get_gaps returns is at least 3 days long and lies inside
\* [start, end], and the list is strictly ascending without overlap.
C1_GapsWellFormed ==
    g_pc = "done" =>
        /\ \A i \in 1..Len(g_gaps) :
              /\ g_gaps[i][2] - g_gaps[i][1] + 1 >= 3
              /\ g_start <= g_gaps[i][1]
              /\ g_gaps[i][2] <= g_end
        /\ \A i \in 1..(Len(g_gaps) - 1) : g_gaps[i][2] < g_gaps[i + 1][1]

C1_Witness == g_pc = "done" /\ Len(g_gaps) >= 2

\* C2 as stated: existing dates of the range and the dates of the returned
\* gaps together make up the whole range.
C2_UnionIsRange ==
    g_pc = "done" => ExistingDays \cup GapDaysCovered = GapRange

\* C2 amended: existing dates, the dates of the returned gaps and the dates
\* of the missing runs shorter than 3 days together make up the whole range,
\* and no returned gap holds an existing date.
C2_UnionWithShortRuns ==
    g_pc = "done" =>
        /\ \A d \in GapRange :
              \/ d \in ExistingDays
              \/ d \in GapDaysCovered
              \/ \E r \in MissingRuns : r[1] <= d /\ d <= r[2] /\ RunLength(r) < 3
        /\ ExistingDays \cap GapDaysCovered = {}

C2_Witness ==
    /\ g_pc = "done"
    /\ Len(g_gaps) >= 1
    /\ \E r \in MissingRuns : RunLength(r) < 3
    /\ ExistingDays # {}

\* C3: get_gaps returns exactly the maximal runs of missing days of the range
\* that are at least 3 days long, each once, none of length 1 or 2.
C3_GapsAreLongRuns ==
    g_pc = "done" =>
        /\ {g_gaps[i] : i \in 1..Len(g_gaps)} = {r \in MissingRuns : RunLength(r) >= 3}
        /\ Cardinality({g_gaps[i] : i \in 1..Len(g_gaps)}) = Len(g_gaps)

\* A run still open at end_date is returned while a 2-day run is not.
C3_Witness ==
    /\ g_pc = "done"
    /\ Len(g_gaps) = 1
    /\ g_gaps[1][2] = g_end
    /\ IsoFormat(g_end) \notin g_existing
    /\ \E r \in MissingRuns : RunLength(r) = 2

----------------------------------------------------------------------------
(* HTTPClient._request: the retry loop *)

RETRYABLE_STATUS == {429, 500, 502, 503, 504}

NON_RETRYABLE_STATUS == {400, 401, 403, 404}

\* Statuses in neither set: a 2xx other than 200, a 4xx and a 5xx.
OtherStatus == {204, 418, 501}

\* resp.headers.get("Retry-After") is None.
NoHeader == 0 - 1

\* What one session.request call can do: answer with a status (a retryable
\* one with or without a Retry-After header of 7 seconds, a 200 with a JSON
\* or a non-JSON body) or raise a requests.exceptions.RequestException.
Responses ==
    [kind : {"response"}, status : {200}, retry_after : {NoHeader}, body : {"json", "text"}]
    \cup [kind : {"response"}, status : RETRYABLE_STATUS, retry_after : {NoHeader, 7},
          body : {"text"}]
    \cup [kind : {"response"}, status : NON_RETRYABLE_STATUS \cup OtherStatus,
          retry_after : {NoHeader}, body : {"text"}]
    \cup [kind : {"exception"}, status : {0}, retry_after : {NoHeader}, body : {"text"}]

ClassifyRetryEveryFailure(status) ==
    IF status = 200 THEN "ok" ELSE "retry"

\* The branch of the loop body a status takes.
Classify(status) ==
    IF status = 200 THEN "ok"
    ELSE IF status \in NON_RETRYABLE_STATUS THEN "client_error"
    ELSE IF status \in RETRYABLE_STATUS THEN "retry"
    ELSE "unexpected"

RECURSIVE Pow2(_)
Pow2(n) == IF n = 0 THEN 1 ELSE 2 * Pow2(n - 1)

Min(a, b) == IF a <= b THEN a ELSE b

Max(a, b) == IF a >= b THEN a ELSE b

BackoffUncapped(attempt) == Pow2(attempt) * 2

\* min(2 ** attempt * 2, 60)
Backoff(attempt) == Min(Pow2(attempt) * 2, 60)

\* resp.json(), or resp.text when the body is not JSON.
Decode(resp) == <<resp.body, resp.status>>

AttemptBudgetShort(max_retries) == max_retries

AttemptBudgetLong(max_retries) == max_retries + 2

\* range(self.max_retries + 1)
AttemptBudget(max_retries) == max_retries + 1

\* The params a caller passes: a dict, kept as the list of its items in
\* insertion order.  The names are listed in string order.
ParamNames == <<"days", "vs_currency">>

NameIndex(name) == CHOOSE i \in 1..Len(ParamNames) : ParamNames[i] = name

Params ==
    { <<<<"days", 1>>, <<"vs_currency", 2>>>>,
      <<<<"vs_currency", 2>>, <<"days", 1>>>>,
      <<<<"days", 1>>>> }

ItemLess(x, y) == NameIndex(x[1]) < NameIndex(y[1])

CacheKeyUnsorted(method, path, params) == <<method, path, params>>

\* _cache_key: the md5 of "method:base_url+path:sorted(params.items())",
\* kept as the text that is hashed.
CacheKey(method, path, params) == <<method, path, SortSeq(params, ItemLess)>>

\* The request a caller means, whatever the order of its params.
RequestId(params) == {params[i] : i \in 1..Len(params)}

\* self._cache[key] = {"data": data, "time": time.time()} on a dict.
CachePut(cache, key, entry) ==
    [k \in (DOMAIN cache) \cup {key} |-> IF k = key THEN entry ELSE cache[k]]

\* `cached and time.time() - cached["time"] < self.cache_ttl`
CacheFresh(cache, key, now, ttl) ==
    key \in DOMAIN cache /\ now - cache[key].time < ttl

\* `if self.rate_limiter: self.rate_limiter.wait()`
Waited == IF h_rate_limiter THEN h_waits + 1 ELSE h_waits

httpConfig == <<h_max_retries, h_rate_limiter, h_cache_ttl>>

\* The loop moves to its next iteration, or ends and `raise last_error` runs.
NextIteration(err) ==
    /\ h_attempt' = h_attempt + 1
    /\ h_error' = err
    /\ h_pc' = IF h_attempt + 1 < AttemptBudget(h_max_retries) THEN "attempt" ELSE "raised"

\* A client without a cache (cache_ttl = 0), with or without a rate limiter.
HttpInit ==
    /\ h_pc = "idle"
    /\ h_max_retries \in 0..MaxRetries
    /\ h_attempt = 0
    /\ h_calls = 0
    /\ h_waits = 0
    /\ h_sleeps = <<>>
    /\ h_responses = <<>>
    /\ h_result = <<>>
    /\ h_error = NoError
    /\ h_rate_limiter \in BOOLEAN
    /\ h_cache_ttl = 0
    /\ h_cache = <<>>
    /\ h_now = 0
    /\ h_params = <<>>
    /\ h_requests = 0
    /\ h_served = <<>>
    /\ h_entry = [served |-> <<>>, now |-> 0]
    /\ GapsParked
    /\ RunParked
    /\ ValidateParked
    /\ LimiterParked
    /\ CacheParked
    /\ AdapterParked
    /\ StoreParked

\* _request is entered: a fresh cache entry is returned at once; otherwise
\* the loop starts, or ends at once when the budget is empty.
HttpRequest(params) ==
    /\ h_pc = "idle"
    /\ h_params' = params
    /\ h_requests' = h_requests + 1
    /\ h_entry' = [served |-> h_served, now |-> h_now]
    /\ IF h_cache_ttl > 0
          /\ CacheFresh(h_cache, CacheKey("GET", "/price", params), h_now, h_cache_ttl)
       THEN /\ h_pc' = "returned"
            /\ h_result' = h_cache[CacheKey("GET", "/price", params)].data
            /\ h_error' = NoError
       ELSE /\ h_pc' = IF 0 < AttemptBudget(h_max_retries) THEN "attempt" ELSE "raised"
            /\ h_error' = IF 0 < AttemptBudget(h_max_retries) THEN NoError
                          ELSE [type |-> "APIError", status |-> 0]
            /\ h_result' = h_result
    /\ UNCHANGED <<httpConfig, h_attempt, h_calls, h_waits, h_sleeps,
                   h_responses, h_cache, h_now, h_served>>
    /\ UNCHANGED httpFrame

\* One iteration: rate_limiter.wait(), session.request, a 200 answer; the
\* payload is stored when the client caches.
AttemptOk(resp) ==
    /\ h_pc = "attempt"
    /\ resp.kind = "response" /\ Classify(resp.status) = "ok"
    /\ h_waits' = Waited
    /\ h_calls' = h_calls + 1
    /\ h_responses' = Append(h_responses, resp)
    /\ h_result' = Decode(resp)
    /\ h_cache' = IF h_cache_ttl > 0
                  THEN CachePut(h_cache, CacheKey("GET", "/price", h_params),
                                [data |-> Decode(resp), time |-> h_now])
                  ELSE h_cache
    /\ h_served' = CachePut(h_served, RequestId(h_params),
                            [data |-> Decode(resp), time |-> h_now,
                             params |-> h_params])
    /\ h_pc' = "returned"
    /\ UNCHANGED <<httpConfig, h_attempt, h_sleeps, h_error, h_now, h_params,
                   h_requests, h_entry>>
    /\ UNCHANGED httpFrame

\* One iteration answered 400, 401, 403 or 404: APIError, not caught.
AttemptClientError(resp) ==
    /\ h_pc = "attempt"
    /\ resp.kind = "response" /\ Classify(resp.status) = "client_error"
    /\ h_waits' = Waited
    /\ h_calls' = h_calls + 1
    /\ h_responses' = Append(h_responses, resp)
    /\ h_error' = [type |-> "APIError", status |-> resp.status]
    /\ h_pc' = "raised"
    /\ UNCHANGED <<httpConfig, h_attempt, h_sleeps, h_result, h_cache, h_now,
                   h_params, h_requests, h_served, h_entry>>
    /\ UNCHANGED httpFrame

\* The seconds the retryable branch sleeps.
RetryWait(resp, attempt) ==
    IF resp.retry_after # NoHeader THEN resp.retry_after ELSE Backoff(attempt)

\* One iteration answered 429, 500, 502, 503 or 504: sleep, then continue.
AttemptRetryable(resp) ==
    /\ h_pc = "attempt"
    /\ resp.kind = "response" /\ Classify(resp.status) = "retry"
    /\ h_waits' = Waited
    /\ h_calls' = h_calls + 1
    /\ h_responses' = Append(h_responses, resp)
    /\ h_sleeps' = Append(h_sleeps, RetryWait(resp, h_attempt))
    /\ h_now' = h_now + RetryWait(resp, h_attempt)
    /\ NextIteration([type |-> "APIError", status |-> resp.status])
    /\ UNCHANGED <<httpConfig, h_result, h_cache, h_params, h_requests,
                   h_served, h_entry>>
    /\ UNCHANGED httpFrame

\* One iteration answered any other status: "Unexpected HTTP", not caught.
AttemptUnexpected(resp) ==
    /\ h_pc = "attempt"
    /\ resp.kind = "response" /\ Classify(resp.status) = "unexpected"
    /\ h_waits' = Waited
    /\ h_calls' = h_calls + 1
    /\ h_responses' = Append(h_responses, resp)
    /\ h_error' = [type |-> "APIError", status |-> resp.status]
    /\ h_pc' = "raised"
    /\ UNCHANGED <<httpConfig, h_attempt, h_sleeps, h_result, h_cache, h_now,
                   h_params, h_requests, h_served, h_entry>>
    /\ UNCHANGED httpFrame

\* One iteration whose session.request raised a RequestException.
AttemptNetworkError(resp) ==
    /\ h_pc = "attempt"
    /\ resp.kind = "exception"
    /\ h_waits' = Waited
    /\ h_calls' = h_calls + 1
    /\ h_responses' = Append(h_responses, resp)
    /\ h_sleeps' = IF h_attempt < h_max_retries
                   THEN Append(h_sleeps, Backoff(h_attempt))
                   ELSE h_sleeps
    /\ h_now' = IF h_attempt < h_max_retries
                THEN h_now + Backoff(h_attempt)
                ELSE h_now
    /\ NextIteration([type |-> "RequestException", status |-> 0])
    /\ UNCHANGED <<httpConfig, h_result, h_cache, h_params, h_requests,
                   h_served, h_entry>>
    /\ UNCHANGED httpFrame

HttpNext ==
    \/ HttpRequest(<<>>)
    \/ \E resp \in Responses : AttemptOk(resp)
    \/ \E resp \in Responses : AttemptClientError(resp)
    \/ \E resp \in Responses : AttemptRetryable(resp)
    \/ \E resp \in Responses : AttemptUnexpected(resp)
    \/ \E resp \in Responses : AttemptNetworkError(resp)

SpecHttp == HttpInit /\ [][HttpNext]_vars

----------------------------------------------------------------------------
(* HTTPClient serving several requests, with its response cache *)

\* The cache_ttl of a caching client, the requests a client is given and the
\* largest max_retries of a caching client.
CacheTtl == 2

MaxRequests == 3

CachedRetries == 1

\* The last second at which time passes between two requests.
MaxIdleClock == 3

\* The answers of the transport to a caching client.
CachedResponses ==
    {resp \in Responses : resp.status \in {0, 200, 404, 503} /\ resp.retry_after = NoHeader}

HttpCacheInit ==
    /\ h_pc = "idle"
    /\ h_max_retries \in 0..CachedRetries
    /\ h_attempt = 0
    /\ h_calls = 0
    /\ h_waits = 0
    /\ h_sleeps = <<>>
    /\ h_responses = <<>>
    /\ h_result = <<>>
    /\ h_error = NoError
    /\ h_rate_limiter = TRUE
    /\ h_cache_ttl \in {0, CacheTtl}
    /\ h_cache = <<>>
    /\ h_now = 0
    /\ h_params = <<>>
    /\ h_requests = 0
    /\ h_served = <<>>
    /\ h_entry = [served |-> <<>>, now |-> 0]
    /\ GapsParked
    /\ RunParked
    /\ ValidateParked
    /\ LimiterParked
    /\ CacheParked
    /\ AdapterParked
    /\ StoreParked

\* The caller has its answer (or its exception) and the client is free for
\* the next request: attempt, last_error and the counts kept for one request
\* start afresh.
HttpDone ==
    /\ h_pc \in {"returned", "raised"}
    /\ h_requests < MaxRequests
    /\ h_pc' = "idle"
    /\ h_attempt' = 0
    /\ h_calls' = 0
    /\ h_waits' = 0
    /\ h_sleeps' = <<>>
    /\ h_responses' = <<>>
    /\ h_result' = <<>>
    /\ h_error' = NoError
    /\ UNCHANGED <<httpConfig, h_cache, h_now, h_params, h_requests, h_served, h_entry>>
    /\ UNCHANGED httpFrame

\* A second passes between two requests.
HttpTick ==
    /\ h_pc = "idle"
    /\ h_now < MaxIdleClock
    /\ h_now' = h_now + 1
    /\ UNCHANGED <<httpConfig, h_pc, h_attempt, h_calls, h_waits, h_sleeps, h_responses,
                   h_result, h_error, h_cache, h_params, h_requests, h_served, h_entry>>
    /\ UNCHANGED httpFrame

HttpCacheNext ==
    \/ \E params \in Params : HttpRequest(params)
    \/ \E resp \in CachedResponses : AttemptOk(resp)
    \/ \E resp \in CachedResponses : AttemptClientError(resp)
    \/ \E resp \in CachedResponses : AttemptRetryable(resp)
    \/ \E resp \in CachedResponses : AttemptNetworkError(resp)
    \/ HttpDone
    \/ HttpTick

SpecHttpCache == HttpCacheInit /\ [][HttpCacheNext]_vars

----------------------------------------------------------------------------
(* HTTPClient with a retry budget long enough for the backoff to reach its *)
(* 60-second cap (2 ** 5 * 2 = 64)                                         *)

\* Largest max_retries of such a client.
BackoffRetries == 5

\* The answers of its transport: 200, 404, 503 with and without a
\* Retry-After header, a network failure.
BackoffResponses == {resp \in Responses : resp.status \in {0, 200, 404, 503}}

HttpBackoffInit ==
    /\ h_pc = "idle"
    /\ h_max_retries \in 0..BackoffRetries
    /\ h_attempt = 0
    /\ h_calls = 0
    /\ h_waits = 0
    /\ h_sleeps = <<>>
    /\ h_responses = <<>>
    /\ h_result = <<>>
    /\ h_error = NoError
    /\ h_rate_limiter = FALSE
    /\ h_cache_ttl = 0
    /\ h_cache = <<>>
    /\ h_now = 0
    /\ h_params = <<>>
    /\ h_requests = 0
    /\ h_served = <<>>
    /\ h_entry = [served |-> <<>>, now |-> 0]
    /\ GapsParked
    /\ RunParked
    /\ ValidateParked
    /\ LimiterParked
    /\ CacheParked
    /\ AdapterParked
    /\ StoreParked

HttpBackoffNext ==
    \/ HttpRequest(<<>>)
    \/ \E resp \in BackoffResponses : AttemptOk(resp)
    \/ \E resp \in BackoffResponses : AttemptClientError(resp)
    \/ \E resp \in BackoffResponses : AttemptRetryable(resp)
    \/ \E resp \in BackoffResponses : AttemptNetworkError(resp)

SpecHttpBackoff == HttpBackoffInit /\ [][HttpBackoffNext]_vars

----------------------------------------------------------------------------
(* Claims about HTTPClient._request *)

LastResponse == h_responses[Len(h_responses)]

\* C9: a response with status 400, 401, 403 or 404, on the first attempt or
\* after retried failures, ends the request: APIError with that status is
\* raised, no sleep follows it and no later transport call is made (so a
\* transport that always answers 404 is called exactly once).
C9_NonRetryableStops ==
    /\ \A i \in 1..Len(h_responses) :
          (h_responses[i].kind = "response"
             /\ h_responses[i].status \in NON_RETRYABLE_STATUS)
          => /\ i = Len(h_responses)
             /\ h_pc = "raised"
             /\ h_error = [type |-> "APIError", status |-> h_responses[i].status]
             /\ h_calls = i
             /\ Len(h_sleeps) = i - 1
    /\ (h_responses # <<>> /\ h_responses[1].status = 404) => h_calls = 1

\* A 404 after two retried failures.
C9_Witness ==
    /\ h_pc = "raised"
    /\ Len(h_responses) = 3
    /\ LastResponse.status = 404
    /\ h_responses[1].status = 503

Is503(resp) == resp.kind = "response" /\ resp.status = 503

Retried(resp) ==
    \/ resp.kind = "exception"
    \/ resp.kind = "response" /\ resp.status \in RETRYABLE_STATUS

\* The error an attempt leaves in last_error.
ErrorOf(resp) ==
    IF resp.kind = "exception" THEN [type |-> "RequestException", status |-> 0]
    ELSE [type |-> "APIError", status |-> resp.status]

C12_RetryClassification ==
    \A i \in 1..Len(h_responses) :
        LET s == h_responses[i].status IN
        h_responses[i].kind = "response" =>
            /\ (s = 429 \/ (500 <= s /\ s <= 599))
                  => \/ i < Len(h_responses)
                     \/ h_pc = "attempt"
                     \/ i = h_max_retries + 1
            /\ (400 <= s /\ s <= 499 /\ s # 429)
                  => i = Len(h_responses) /\ h_pc = "raised"

\* The request being served was answered 200 before, less than cache_ttl
\* seconds before it came in.
ServedFresh ==
    /\ h_pc \in {"attempt", "returned", "raised"}
    /\ h_cache_ttl > 0
    /\ RequestId(h_params) \in DOMAIN h_entry.served
    /\ h_entry.now - h_entry.served[RequestId(h_params)].time < h_cache_ttl

\* C20: with cache_ttl > 0, a request that the same method, path and params
\* (in any order) got a 200 answer for less than cache_ttl seconds earlier
\* returns the payload stored then, with no transport call, no
\* rate_limiter.wait() (the limiter is touched by nothing else) and no sleep.
C20_CacheHit ==
    ServedFresh =>
        /\ h_pc = "returned"
        /\ h_result = h_entry.served[RequestId(h_params)].data
        /\ h_calls = 0
        /\ h_waits = 0
        /\ h_sleeps = <<>>
        /\ h_responses = <<>>

\* A hit for params given in another order than when the payload was stored.
C20_Witness ==
    /\ ServedFresh
    /\ h_pc = "returned"
    /\ h_requests >= 2
    /\ h_entry.served[RequestId(h_params)].params # h_params

\* Attempt i of the request (1-based; `attempt` is i - 1) was followed by
\* another one, or is about to be.
Continued(i) == i < Len(h_responses) \/ (i = Len(h_responses) /\ h_pc = "attempt")

C30_NoSleepAfterFinalAttempt ==
    ( /\ h_pc = "raised"
      /\ Len(h_responses) = h_max_retries + 1
      /\ Retried(LastResponse) )
    => Len(h_sleeps) <= h_max_retries

----------------------------------------------------------------------------
(* RateLimiter: a token bucket behind a lock *)

\* Time is counted in ticks and tokens in the amount that accrues in one
\* tick, TicksPerToken of them to a token: self.rate is one unit per tick and
\* a tick lasts 60 / (calls_per_minute * TicksPerToken) seconds.
TicksPerToken == 2

\* The largest calls_per_minute.
MaxCallsPerMinute == 2

\* The threads that call wait() and the calls they make between them.
MaxThreads == 2

MaxWaits == 4

\* The clock stops ticking on its own at MaxTime (sleeps still pass time).
MaxTime == 3

Threads == 1..MaxThreads

NoThread == 0

LockIgnored(lock) == TRUE

\* `with self._lock:` can be entered.
LockFree(lock) == lock = NoThread

UnlockNever(holder) == holder

\* Leaving `with self._lock:`.
Unlock(holder) == NoThread

\* min(self.max_tokens, self.tokens + elapsed * self.rate)
Refilled(tokens, last_time, now, max_tokens) ==
    Min(max_tokens * TicksPerToken, tokens + (now - last_time))

\* (1 - self.tokens) / self.rate
SleepTime(tokens) == TicksPerToken - tokens

LimiterInit ==
    /\ l_max_tokens \in 1..MaxCallsPerMinute
    /\ l_tokens = l_max_tokens * TicksPerToken
    /\ l_last_time = 0
    /\ l_lock = NoThread
    /\ l_now = 0
    /\ l_pc = [t \in Threads |-> "idle"]
    /\ l_wake = [t \in Threads |-> 0]
    /\ l_slept = [t \in Threads |-> 0]
    /\ l_calls = 0
    /\ l_returns = <<>>
    /\ l_delayed = FALSE
    /\ GapsParked
    /\ HttpParked
    /\ RunParked
    /\ ValidateParked
    /\ CacheParked
    /\ AdapterParked
    /\ StoreParked

\* A thread calls wait() and reaches `with self._lock`.
WaitCall(t) ==
    /\ l_pc[t] = "idle"
    /\ l_calls < MaxWaits
    /\ l_calls' = l_calls + 1
    /\ l_pc' = [l_pc EXCEPT ![t] = "waiting"]
    /\ l_slept' = [l_slept EXCEPT ![t] = 0]
    /\ UNCHANGED <<l_max_tokens, l_tokens, l_last_time, l_lock, l_now, l_wake,
                   l_returns, l_delayed>>
    /\ UNCHANGED limiterFrame

\* The thread gets the lock.
Acquire(t) ==
    /\ l_pc[t] = "waiting"
    /\ LockFree(l_lock)
    /\ l_lock' = t
    /\ l_pc' = [l_pc EXCEPT ![t] = "locked"]
    /\ UNCHANGED <<l_max_tokens, l_tokens, l_last_time, l_now, l_wake, l_slept,
                   l_calls, l_returns, l_delayed>>
    /\ UNCHANGED limiterFrame

\* now = time.monotonic(); the bucket is refilled for the time since
\* last_time; last_time = now.
Refill(t) ==
    /\ l_pc[t] = "locked"
    /\ l_tokens' = Refilled(l_tokens, l_last_time, l_now, l_max_tokens)
    /\ l_last_time' = l_now
    /\ l_pc' = [l_pc EXCEPT ![t] = "refilled"]
    /\ UNCHANGED <<l_max_tokens, l_lock, l_now, l_wake, l_slept, l_calls, l_returns,
                   l_delayed>>
    /\ UNCHANGED limiterFrame

\* `if self.tokens < 1`: the thread starts to sleep, or goes on to take a
\* token.
CheckTokens(t) ==
    /\ l_pc[t] = "refilled"
    /\ IF l_tokens < TicksPerToken
       THEN /\ l_pc' = [l_pc EXCEPT ![t] = "sleeping"]
            /\ l_wake' = [l_wake EXCEPT ![t] = l_now + SleepTime(l_tokens)]
            /\ l_slept' = [l_slept EXCEPT ![t] = SleepTime(l_tokens)]
       ELSE /\ l_pc' = [l_pc EXCEPT ![t] = "consuming"]
            /\ UNCHANGED <<l_wake, l_slept>>
    /\ UNCHANGED <<l_max_tokens, l_tokens, l_last_time, l_lock, l_now, l_calls,
                   l_returns, l_delayed>>
    /\ UNCHANGED limiterFrame

\* wait() returns: the lock is released.
WaitReturn(t, now) ==
    /\ l_lock' = Unlock(l_lock)
    /\ l_pc' = [l_pc EXCEPT ![t] = "idle"]
    /\ l_returns' = Append(l_returns, now)

\* self.tokens -= 1
TakeToken(t) ==
    /\ l_pc[t] = "consuming"
    /\ l_tokens' = l_tokens - TicksPerToken
    /\ WaitReturn(t, l_now)
    /\ UNCHANGED <<l_max_tokens, l_last_time, l_now, l_wake, l_slept, l_calls,
                   l_delayed>>
    /\ UNCHANGED limiterFrame

\* time.sleep(sleep_time) is over; self.tokens = 0.
SleepEnd(t) ==
    /\ l_pc[t] = "sleeping"
    /\ l_now' = Max(l_now, l_wake[t])
    /\ l_tokens' = 0
    /\ WaitReturn(t, Max(l_now, l_wake[t]))
    /\ UNCHANGED <<l_max_tokens, l_last_time, l_wake, l_slept, l_calls, l_delayed>>
    /\ UNCHANGED limiterFrame

\* Time passes.
Tick ==
    /\ l_now < MaxTime
    /\ l_now' = l_now + 1
    /\ l_delayed' = (l_delayed \/ \E t \in Threads :
                                      l_pc[t] \in {"locked", "refilled", "consuming"})
    /\ UNCHANGED <<l_max_tokens, l_tokens, l_last_time, l_lock, l_pc, l_wake,
                   l_slept, l_calls, l_returns>>
    /\ UNCHANGED limiterFrame

LimiterNext ==
    \/ \E t \in Threads : WaitCall(t)
    \/ \E t \in Threads : Acquire(t)
    \/ \E t \in Threads : Refill(t)
    \/ \E t \in Threads : CheckTokens(t)
    \/ \E t \in Threads : TakeToken(t)
    \/ \E t \in Threads : SleepEnd(t)
    \/ Tick

SpecLimiter == LimiterInit /\ [][LimiterNext]_vars

\* A thread inside wait() goes on running; a free lock that threads wait for
\* is given to one of them.
LimiterFairness ==
    /\ WF_vars(\E t \in Threads : Acquire(t))
    /\ \A t \in Threads :
          WF_vars(Refill(t) \/ CheckTokens(t) \/ TakeToken(t) \/ SleepEnd(t))

SpecLimiterLive == SpecLimiter /\ LimiterFairness

----------------------------------------------------------------------------
(* Claims about RateLimiter *)

\* The threads between acquiring and releasing the lock.
InSection == {t \in Threads : l_pc[t] \in {"locked", "refilled", "consuming", "sleeping"}}

\* C16: in every state reached by any interleaving of wait() calls,
\* 0 <= tokens <= max_tokens, and at most one call is between its refill and
\* its consume or the end of its sleep: the one that holds the lock.
C16_TokensBoundedAndExclusive ==
    /\ 0 <= l_tokens
    /\ l_tokens <= l_max_tokens * TicksPerToken
    /\ Cardinality(InSection) <= 1
    /\ \A t \in InSection : l_lock = t

\* One thread sleeps inside wait() while another has called wait() and is
\* kept out.
C16_Witness ==
    \E t, u \in Threads :
        /\ l_pc[t] = "sleeping"
        /\ l_pc[u] = "waiting"
        /\ l_returns # <<>>

\* C17: the wait() calls that return within any window of T seconds are
\* never more than N + refill_rate * T, N = calls_per_minute being the
\* capacity; so 2N calls on a full bucket take at least N / refill_rate.
\* (Stated for runs in which the statements of wait() themselves take no
\* time: a call held up between its refill and its return comes back late.)
C17_ThroughputBound ==
    ~l_delayed =>
    /\ \A i, j \in 1..Len(l_returns) :
          i <= j =>
            (j - i + 1) * TicksPerToken
                <= l_max_tokens * TicksPerToken + (l_returns[j] - l_returns[i])
    /\ Len(l_returns) >= 2 * l_max_tokens
          => l_returns[2 * l_max_tokens] >= l_max_tokens * TicksPerToken

\* C18: every wait() call returns, and the sleep inside it is never longer
\* than the time in which one token accrues.
C18_EveryWaitReturns ==
    /\ [](\A t \in Threads : l_slept[t] <= TicksPerToken)
    /\ \A t \in Threads : (l_pc[t] # "idle") ~> (l_pc[t] = "idle")

\* Every thread has made all its calls, one of them after a sleep.
C18_Witness ==
    /\ \A t \in Threads : l_pc[t] = "idle"
    /\ Len(l_returns) = MaxWaits
    /\ \E t \in Threads : l_slept[t] > 0

----------------------------------------------------------------------------
(* TTLCache *)

\* The longest ttl passed to set() and the last second of the clock.
MaxTtl == 2

MaxClock == 3

CacheKeys == {"k1", "k2"}

CacheValues == {"v1", "v2"}

\* `if time.time() > entry["expires"]`
Expired(now, expires) == now > expires

\* dict without a key (del self._store[key], self._store.pop(key, None)).
Without(store, key) == [k \in (DOMAIN store) \ {key} |-> store[k]]

CacheInit ==
    /\ c_store = <<>>
    /\ c_now = 0
    /\ c_sets = <<>>
    /\ c_got = NoGet
    /\ GapsParked
    /\ HttpParked
    /\ RunParked
    /\ ValidateParked
    /\ LimiterParked
    /\ AdapterParked
    /\ StoreParked

\* TTLCache.set
CacheSet(key, value, ttl) ==
    /\ c_store' = CachePut(c_store, key, [value |-> value, expires |-> c_now + ttl])
    /\ c_sets' = CachePut(c_sets, key, [value |-> value, stored_at |-> c_now, ttl |-> ttl])
    /\ UNCHANGED <<c_now, c_got>>
    /\ UNCHANGED cacheFrame

\* What c_sets holds for the key, with the age of that set().
LastSet(key) ==
    IF key \in DOMAIN c_sets
    THEN <<[value |-> c_sets[key].value, age |-> c_now - c_sets[key].stored_at,
            ttl |-> c_sets[key].ttl]>>
    ELSE <<>>

\* TTLCache.get
CacheGet(key) ==
    /\ IF key \notin DOMAIN c_store
       THEN /\ c_got' = [key |-> key, value |-> NoValue, removed |-> TRUE,
                         had |-> LastSet(key)]
            /\ UNCHANGED c_store
       ELSE IF Expired(c_now, c_store[key].expires)
       THEN /\ c_store' = Without(c_store, key)
            /\ c_got' = [key |-> key, value |-> NoValue, removed |-> TRUE,
                         had |-> LastSet(key)]
       ELSE /\ c_got' = [key |-> key, value |-> c_store[key].value, removed |-> FALSE,
                         had |-> LastSet(key)]
            /\ UNCHANGED c_store
    /\ UNCHANGED <<c_now, c_sets>>
    /\ UNCHANGED cacheFrame

\* TTLCache.invalidate
CacheInvalidate(key) ==
    /\ c_store' = Without(c_store, key)
    /\ c_sets' = Without(c_sets, key)
    /\ UNCHANGED <<c_now, c_got>>
    /\ UNCHANGED cacheFrame

\* TTLCache.clear
CacheClear ==
    /\ c_store' = <<>>
    /\ c_sets' = <<>>
    /\ UNCHANGED <<c_now, c_got>>
    /\ UNCHANGED cacheFrame

\* A second passes.
CacheTick ==
    /\ c_now < MaxClock
    /\ c_now' = c_now + 1
    /\ UNCHANGED <<c_store, c_sets, c_got>>
    /\ UNCHANGED cacheFrame

CacheNext ==
    \/ \E key \in CacheKeys, value \in CacheValues, ttl \in 0..MaxTtl :
          CacheSet(key, value, ttl)
    \/ \E key \in CacheKeys : CacheGet(key)
    \/ \E key \in CacheKeys : CacheInvalidate(key)
    \/ CacheClear
    \/ CacheTick

SpecCache == CacheInit /\ [][CacheNext]_vars

----------------------------------------------------------------------------
(* Claims about TTLCache *)

\* C19: a get(key) at time now, the last set(key, value, ttl) not overwritten,
\* invalidated or cleared having been made at stored_at, returns value if
\* and only if now - stored_at < ttl; when now - stored_at >= ttl it returns
\* None and the key is out of the store after the read.
C19_TtlExpiry ==
    (c_got # NoGet /\ c_got.had # <<>>) =>
        LET last == c_got.had[1] IN
        /\ (c_got.value = last.value) <=> (last.age < last.ttl)
        /\ (last.age >= last.ttl) => (c_got.value = NoValue /\ c_got.removed)

----------------------------------------------------------------------------
(* Price records, validate and the price_history table *)

\* The sanity cap of validate: price_usd must be < 10,000,000.
PriceCap == 10000000

\* A record is a dict with "date" and "price_usd" (market_cap and volume
\* take no part in any decision and are left out).
Rec(date, price) == [date |-> date, price_usd |-> price]

\* A missing date: r.get("date") is None.
NoDateStr == <<0, 0, 0>>

\* The empty string "".
EmptyStr == <<>>

\* float("nan"), a value no price of the model takes; it orders with nothing.
NaN == 0 - (100 * PriceCap)

\* a <= b and a >= b on floats: False when either side is NaN.
PyLe(a, b) == a # NaN /\ b # NaN /\ a <= b

PyGe(a, b) == a # NaN /\ b # NaN /\ a >= b

\* r.get(key, default)
Get(r, key, default) == IF key \in DOMAIN r THEN r[key] ELSE default

\* `not r.get("date")`: None and "" are falsy, every other string is truthy.
NoDateGiven(r) == Get(r, "date", NoDateStr) \in {NoDateStr, EmptyStr}

PriceRejectedNoCap(price) == PyLe(price, 0)

\* `if price <= 0 or price >= 10_000_000`
PriceRejected(price) == PyLe(price, 0) \/ PyGe(price, PriceCap)

SeenPutFirst(seen, r) ==
    IF \E j \in 1..Len(seen) : seen[j].date = r.date THEN seen ELSE Append(seen, r)

\* seen[r["date"]] = r on a dict kept as the list of its values in
\* insertion order.
SeenPut(seen, r) ==
    IF \E j \in 1..Len(seen) : seen[j].date = r.date
    THEN [j \in 1..Len(seen) |-> IF seen[j].date = r.date THEN r ELSE seen[j]]
    ELSE Append(seen, r)

RECURSIVE ValidateFrom(_, _, _)
ValidateFrom(records, i, seen) ==
    IF i > Len(records) THEN seen
    ELSE IF PriceRejected(Get(records[i], "price_usd", 0))
         THEN ValidateFrom(records, i + 1, seen)
    ELSE IF NoDateGiven(records[i]) THEN ValidateFrom(records, i + 1, seen)
    ELSE ValidateFrom(records, i + 1, SeenPut(seen, records[i]))

ValidateNothing(records) == records

\* BackfillOrchestrator.validate
validate(records) == ValidateFrom(records, 1, <<>>)

RecDates(records) == {records[i].date : i \in 1..Len(records)}

UpsertAlone(table, r) == [s \in {r.date} |-> r.price_usd]

\* INSERT OR REPLACE of one row.
Upsert(table, r) ==
    [s \in (DOMAIN table) \cup {r.date} |-> IF s = r.date THEN r.price_usd ELSE table[s]]

RECURSIVE SaveFrom(_, _, _)
SaveFrom(table, records, i) ==
    IF i > Len(records) THEN table
    ELSE SaveFrom(Upsert(table, records[i]), records, i + 1)

\* Database.save_price_history
save_price_history(table, records) == SaveFrom(table, records, 1)

\* BackfillOrchestrator.get_existing_dates
get_existing_dates(table) == DOMAIN table

StrMin(S) == CHOOSE s \in S : \A t \in S : ~StrLess(t, s)

StrMax(S) == CHOOSE s \in S : \A t \in S : ~StrLess(s, t)

\* Database.get_price_date_range: (MIN(date), MAX(date)), NULLs on an
\* empty table.
get_price_date_range(table) ==
    IF DOMAIN table = {} THEN <<NoDateStr, NoDateStr>>
    ELSE <<StrMin(DOMAIN table), StrMax(DOMAIN table)>>

----------------------------------------------------------------------------
(* validate called on its own *)

\* The longest list passed to validate.
MaxRecords == 3

\* A date string that is no calendar day: "2013-13-45".
MalformedDate == <<StartYear, 13, 45>>

\* The records a batch is made of: every price on either side of the two
\* limits (and NaN) with a good and with a malformed date, a record with an
\* empty date, a record without "price_usd" and a record without "date".
ValidateRecords ==
    { Rec(d, p) : d \in {IsoFormat(1), IsoFormat(2), MalformedDate},
                  p \in {0 - 5, 0, 100, 200, PriceCap, NaN} }
    \cup { Rec(EmptyStr, 100), [date |-> IsoFormat(1)], [price_usd |-> 100] }

RECURSIVE Lists(_, _)
Lists(S, n) ==
    IF n = 0 THEN {<<>>}
    ELSE Lists(S, n - 1) \cup {Append(l, x) : l \in Lists(S, n - 1), x \in S}

ValidateInit ==
    /\ v_pc = "input"
    /\ v_records \in Lists(ValidateRecords, MaxRecords)
    /\ v_valid = <<>>
    /\ GapsParked
    /\ HttpParked
    /\ RunParked
    /\ LimiterParked
    /\ CacheParked
    /\ AdapterParked
    /\ StoreParked

ValidateCall ==
    /\ v_pc = "input"
    /\ v_valid' = validate(v_records)
    /\ v_pc' = "done"
    /\ UNCHANGED v_records
    /\ UNCHANGED validateFrame

ValidateNext == ValidateCall

SpecValidate == ValidateInit /\ [][ValidateNext]_vars

----------------------------------------------------------------------------
(* Claims about validate *)

\* The record has a date: the key is there and its value is not empty.
HasDate(r) == "date" \in DOMAIN r /\ r.date # NoDateStr /\ r.date # EmptyStr

\* The price the rules look at (a record without the key counts as 0).
PriceOf(r) == IF "price_usd" \in DOMAIN r THEN r.price_usd ELSE 0

\* 0 < price_usd < 10,000,000
PriceInRange(r) ==
    /\ PriceOf(r) # NaN
    /\ 0 < PriceOf(r)
    /\ PriceOf(r) < PriceCap

\* price_usd <= 0 or price_usd >= 10,000,000
PriceOutOfRange(r) ==
    /\ PriceOf(r) # NaN
    /\ (PriceOf(r) <= 0 \/ PriceOf(r) >= PriceCap)

InList(r, l) == \E i \in 1..Len(l) : l[i] = r

\* C13: every record validate returns has 0 < price_usd < 10,000,000 and a
\* date; no input record with price_usd <= 0, price_usd >= 10,000,000 or no
\* date is returned (a batch of such records gives an empty list); and every
\* returned record is one of the input records, unchanged.
C13_ValidateFilters ==
    v_pc = "done" =>
        /\ \A i \in 1..Len(v_valid) :
              /\ PriceInRange(v_valid[i])
              /\ HasDate(v_valid[i])
              /\ InList(v_valid[i], v_records)
        /\ \A i \in 1..Len(v_records) :
              (PriceOutOfRange(v_records[i]) \/ ~HasDate(v_records[i]))
                  => ~InList(v_records[i], v_valid)
        /\ (\A i \in 1..Len(v_records) :
                PriceOutOfRange(v_records[i]) \/ ~HasDate(v_records[i]))
              => v_valid = <<>>

\* The records that pass the price rule and the date rule.
Passes(r) == ~PriceOutOfRange(r) /\ HasDate(r)

\* C14: validate returns at most one record per date, and for each date with
\* a record that passes the price and date rules the returned record is the
\* last such record of the input.
C14_LastWins ==
    v_pc = "done" =>
        /\ \A i, j \in 1..Len(v_valid) : v_valid[i].date = v_valid[j].date => i = j
        /\ \A i \in 1..Len(v_records) :
              ( /\ Passes(v_records[i])
                /\ \A j \in (i + 1)..Len(v_records) :
                      ~(Passes(v_records[j]) /\ v_records[j].date = v_records[i].date) )
              => InList(v_records[i], v_valid)

\* Two passing records of one date, the later one with another price, and
\* a passing record of another date.
C14_Witness ==
    /\ v_pc = "done"
    /\ Len(v_records) = 3
    /\ Len(v_valid) = 2
    /\ v_records[1] = Rec(IsoFormat(1), 100)
    /\ v_records[3] = Rec(IsoFormat(1), 200)
    /\ v_records[2] = Rec(IsoFormat(2), 100)

\* The string is the ISO form of a calendar day.
IsCalendarDay(str) ==
    /\ Len(str) = 3
    /\ str[2] \in 1..12
    /\ str[3] \in 1..MonthDays[str[2]]

\* C15: validate returns no record whose date is malformed.
C15_MalformedDateDropped ==
    v_pc = "done" =>
        \A i \in 1..Len(v_valid) : IsCalendarDay(v_valid[i].date)

----------------------------------------------------------------------------
(* SpecStore: sequences of save_price_history calls on the price_history   *)
(* table, kept as its rows (id INTEGER PRIMARY KEY AUTOINCREMENT, date     *)
(* TEXT NOT NULL UNIQUE, price_usd REAL NOT NULL), next to the view of the *)
(* table SpecRun works with (db: date -> price_usd).                       *)

\* The dates the saved records carry.
StoreDates == {IsoFormat(1), IsoFormat(2)}

\* Longest batch one call saves.
MaxBatch == 2

\* How many calls one behaviour makes.
MaxSaves == 3

StoreRecords == {Rec(date, p) : date \in StoreDates, p \in {100, 200}}

Row(id, r) == [id |-> id, date |-> r.date, price_usd |-> r.price_usd]

InsertPlain(rows, r, id) == Append(rows, Row(id, r))

\* INSERT OR REPLACE INTO price_history: the rows that conflict with the
\* new one on the UNIQUE date are deleted, then the row is inserted under
\* a fresh id.
InsertOrReplace(rows, r, id) ==
    LET Other(x) == x.date # r.date
    IN Append(SelectSeq(rows, Other), Row(id, r))

\* executemany: one INSERT OR REPLACE per record, in list order.
RECURSIVE ExecuteMany(_, _, _, _)
ExecuteMany(rows, next_id, records, i) ==
    IF i > Len(records) THEN rows
    ELSE ExecuteMany(InsertOrReplace(rows, records[i], next_id), next_id + 1,
                     records, i + 1)

StoreInit ==
    /\ t_pc = "open"
    /\ t_rows = <<>>
    /\ t_next_id = 1
    /\ t_saves = 0
    /\ t_batch = <<>>
    /\ t_before = <<>>
    /\ db = <<>>
    /\ SourcesParked
    /\ RunLocalsParked
    /\ GapsParked
    /\ HttpParked
    /\ ValidateParked
    /\ LimiterParked
    /\ CacheParked
    /\ AdapterParked

\* Database.save_price_history(records)
StoreSave(records) ==
    /\ t_pc = "open"
    /\ t_saves < MaxSaves
    /\ t_rows' = ExecuteMany(t_rows, t_next_id, records, 1)
    /\ t_next_id' = t_next_id + Len(records)
    /\ db' = save_price_history(db, records)
    /\ t_saves' = t_saves + 1
    /\ t_batch' = records
    /\ t_before' = t_rows
    /\ UNCHANGED t_pc
    /\ UNCHANGED storeFrame

StoreNext == \E records \in Lists(StoreRecords, MaxBatch) : StoreSave(records)

SpecStore == StoreInit /\ [][StoreNext]_vars

----------------------------------------------------------------------------
(* Claims about save_price_history *)

\* The records a table holds, ids aside.
Content(rows) == {<<rows[i].date, rows[i].price_usd>> : i \in 1..Len(rows)}

RowDates(rows) == {rows[i].date : i \in 1..Len(rows)}

\* The last record of the batch for a date.
LastOf(records, date) ==
    LET last == CHOOSE i \in 1..Len(records) :
                    /\ records[i].date = date
                    /\ \A j \in (i + 1)..Len(records) : records[j].date # date
    IN records[last]

\* C23: after any sequence of save_price_history calls the table holds at
\* most one record per date; a save for a date that is present replaces
\* that date's record (and leaves the other dates' records alone); saving
\* the batch once more leaves the same records.  The date -> price view
\* of the table is what the model of run() keeps in db.
C23_OneRecordPerDate ==
    t_pc = "open" =>
        /\ \A i, j \in 1..Len(t_rows) : t_rows[i].date = t_rows[j].date => i = j
        /\ \A date \in RecDates(t_batch) :
               <<date, LastOf(t_batch, date).price_usd>> \in Content(t_rows)
        /\ \A x \in Content(t_before) :
               x[1] \notin RecDates(t_batch) => x \in Content(t_rows)
        /\ RowDates(t_rows) = RowDates(t_before) \cup RecDates(t_batch)
        /\ Content(ExecuteMany(t_rows, t_next_id, t_batch, 1)) = Content(t_rows)
        /\ Len(ExecuteMany(t_rows, t_next_id, t_batch, 1)) = Len(t_rows)
        /\ DOMAIN db = RowDates(t_rows)
        /\ \A i \in 1..Len(t_rows) : db[t_rows[i].date] = t_rows[i].price_usd

\* A save replaced the record of a date with another price and added a
\* date.
C23_Witness ==
    /\ t_pc = "open"
    /\ \E x \in Content(t_before) :
          /\ x[1] \in RecDates(t_batch)
          /\ LastOf(t_batch, x[1]).price_usd # x[2]
    /\ Len(t_rows) > Len(t_before)

----------------------------------------------------------------------------
(* The two adapters *)

\* world[d] before any adapter was asked for day d.
Unknown == 0 - 1

RunCalendar == 1..RunDays

\* A source holds no row for a day, a row with a plausible price, or a row
\* with a price beyond the sanity cap.
WorldPrices == {0, 500, PriceCap}

\* The rows a source holds for the days lo..hi, in date order, rows with
\* price <= 0 skipped (both adapters: `if price <= 0: continue`).
RECURSIVE Rows(_, _, _)
Rows(w, lo, hi) ==
    IF lo > hi THEN <<>>
    ELSE IF lo \in DOMAIN w /\ w[lo] > 0
         THEN <<Rec(IsoFormat(lo), w[lo])>> \o Rows(w, lo + 1, hi)
         ELSE Rows(w, lo + 1, hi)

YfEmptyRangeStrict(start_date, end_date) == end_date < start_date

\* `if end_date <= start_date: return []`
YfEmptyRange(start_date, end_date) == end_date <= start_date

\* YFinanceClient.get_daily_prices(start_date, end_date), the source
\* holding the rows w.  ticker.history is asked for start..end and also
\* returns the yf_lead days before start that it holds (it holds nothing
\* before EARLIEST_DATE); any exception gives [].
YfGetDailyPrices(w, start_date, end_date) ==
    LET start == Max(start_date, r_earliest) IN
    IF YfEmptyRange(start, end_date) THEN <<>>
    ELSE IF yf_down THEN <<>>
    ELSE Rows(w, Max(start - yf_lead, r_earliest), end_date)

\* CSVBackfill.get_daily_prices(start_date, end_date): the rows of the
\* seed file (it ends the day before EARLIEST_DATE) whose date string lies
\* in [str(start_date), str(end_date)]; any exception gives [].
CsvGetDailyPrices(w, start_date, end_date) ==
    LET InRange(r) == ~(StrLess(r.date, IsoFormat(start_date))
                        \/ StrLess(IsoFormat(end_date), r.date))
    IN IF csv_down THEN <<>>
       ELSE SelectSeq(Rows(w, 1, r_earliest - 1), InRange)

\* An adapter call for the days lo..hi of a source that can be reached
\* fixes the rows of the days among them that are still Unknown (f gives
\* their rows).
Unresolved(w, lo, hi, down) ==
    IF down THEN {} ELSE {d \in DOMAIN w : lo <= d /\ d <= hi /\ w[d] = Unknown}

Resolve(w, f) == [d \in DOMAIN w |-> IF d \in DOMAIN f THEN f[d] ELSE w[d]]

\* The rows a call may fix: no more than MaxBadRows rows beyond the cap.
Resolutions(w, lo, hi, down) ==
    {f \in [Unresolved(w, lo, hi, down) -> WorldPrices] :
        Cardinality({d \in DOMAIN w : Resolve(w, f)[d] >= PriceCap}) <= MaxBadRows}

----------------------------------------------------------------------------
(* SpecAdapter: YFinanceClient.get_daily_prices called on its own with     *)
(* every start and end of the calendar, the source reachable or not.       *)

\* How many days of the calendar the source holds no row for.
MaxMissingRows == 1

\* Lines 27-40: the days ticker.history is asked for, first and last
\* (the call passes end_date + 1 day as its exclusive end), or NoQuery when
\* the method returns before the call.
YfQuery(start_date, end_date) ==
    LET start == Max(start_date, r_earliest) IN
    IF YfEmptyRange(start, end_date) THEN NoQuery ELSE <<start, end_date>>

AdapterInit ==
    /\ a_pc = "input"
    /\ a_start \in RunCalendar
    /\ a_end \in RunCalendar
    /\ a_today \in {RunDays - 1, RunDays}
    /\ a_query = NoQuery
    /\ a_records = <<>>
    /\ world \in {w \in [RunCalendar -> {0, 500}] :
                    /\ Cardinality({d \in RunCalendar : d <= a_today /\ w[d] = 0})
                           <= MaxMissingRows
                    /\ \A d \in RunCalendar : d > a_today => w[d] = 0}
    /\ yf_down \in BOOLEAN
    /\ csv_down = FALSE
    /\ yf_lead \in {0, 1}
    /\ r_earliest \in {1, EarliestOffset}
    /\ DbParked
    /\ RunLocalsParked
    /\ GapsParked
    /\ HttpParked
    /\ ValidateParked
    /\ LimiterParked
    /\ CacheParked
    /\ StoreParked

YfCall ==
    /\ a_pc = "input"
    /\ a_query' = YfQuery(a_start, a_end)
    /\ a_records' = YfGetDailyPrices(world, a_start, a_end)
    /\ a_pc' = "done"
    /\ UNCHANGED <<a_start, a_end, a_today>>
    /\ UNCHANGED adapterFrame

AdapterNext == YfCall

SpecAdapter == AdapterInit /\ [][AdapterNext]_vars

----------------------------------------------------------------------------
(* Claims about the adapter *)

\* The range the request is clamped to: [max(start, EARLIEST_DATE),
\* min(end, today)].
ClampedStart == Max(a_start, r_earliest)

ClampedEnd == Min(a_end, a_today)

\* C21: get_daily_prices asks its source for exactly the clamped range
\* [max(start, earliest), min(end, today)], and returns [] without asking
\* the source exactly when that range is empty (clamped end < clamped
\* start).
C21_ClampedQuery ==
    a_pc = "done" =>
        /\ (a_query = NoQuery) <=> (ClampedEnd < ClampedStart)
        /\ a_query # NoQuery => a_query = <<ClampedStart, ClampedEnd>>
        /\ a_query = NoQuery => a_records = <<>>

----------------------------------------------------------------------------
(* BackfillOrchestrator.run, one action per step: entry and gap            *)
(* detection, one iteration of the yfinance loop, one iteration of the     *)
(* CSV loop, the final re-check.  target_start is day 1, target_end        *)
(* (date.today()) is day RunDays.  progress_callback is None.              *)

RunInit ==
    /\ db \in {[s \in {IsoFormat(d) : d \in D} |-> 100] : D \in SUBSET RunCalendar}
    /\ world = [d \in RunCalendar |-> Unknown]
    /\ yf_down \in BOOLEAN
    /\ csv_down \in BOOLEAN
    /\ yf_lead \in {0, 1}
    /\ r_earliest \in {1, EarliestOffset}
    /\ r_pc = "idle"
    /\ r_run = 0
    /\ r_existing = {}
    /\ r_gaps = <<>>
    /\ r_i = 0
    /\ r_dates_added = 0
    /\ r_result = NewResult
    /\ r_prev = NewResult
    /\ r_db0 = <<>>
    /\ r_written = {}
    /\ r_visited = {}
    /\ r_failed = {}
    /\ r_faults = 0
    /\ r_step = NoStep
    /\ GapsParked
    /\ HttpParked
    /\ ValidateParked
    /\ LimiterParked
    /\ CacheParked
    /\ AdapterParked
    /\ StoreParked

\* run() may be entered, a first time or again after it returned.  The
\* second run is followed for first runs in which no call raised, and no
\* save raises in it.
RunEnterable == r_pc = "idle" \/ (r_pc = "done" /\ r_run = 1 /\ r_faults = 0)

FaultAllowed == r_faults < MaxFaults /\ r_run <= 1

\* Lines 94-111: read the persisted dates, detect the gaps; return at once
\* when there are none.
RunStart ==
    /\ RunEnterable
    /\ LET existing == get_existing_dates(db)
           gaps == get_gaps(1, RunDays, existing)
       IN /\ r_existing' = existing
          /\ r_gaps' = gaps
          /\ IF gaps = <<>>
             THEN /\ r_result' = [NewResult EXCEPT !.date_range = get_price_date_range(db)]
                  /\ r_pc' = "done"
                  /\ r_i' = 0
             ELSE /\ r_result' = NewResult
                  /\ r_pc' = "yfinance"
                  /\ r_i' = 1
    /\ r_run' = r_run + 1
    /\ r_prev' = r_result
    /\ r_db0' = db
    /\ r_dates_added' = 0
    /\ r_written' = {}
    /\ r_visited' = {}
    /\ r_failed' = {}
    /\ r_step' = NoStep
    /\ UNCHANGED <<db, worldVars, r_faults>>
    /\ UNCHANGED runFrame

\* Line 99: db.get_price_history() raises; nothing in run() catches it.
RunStartReadFails ==
    /\ RunEnterable
    /\ FaultAllowed
    /\ r_faults' = r_faults + 1
    /\ r_pc' = "raised"
    /\ r_run' = r_run + 1
    /\ r_prev' = r_result
    /\ r_db0' = db
    /\ UNCHANGED <<db, worldVars, r_existing, r_gaps, r_i, r_dates_added, r_result,
                   r_written, r_visited, r_failed, r_step>>
    /\ UNCHANGED runFrame

\* The for loop moves to its next gap, or ends and the next block starts.
LoopAdvance(next_pc) ==
    IF r_i < Len(r_gaps)
    THEN r_i' = r_i + 1 /\ r_pc' = r_pc
    ELSE r_i' = 1 /\ r_pc' = next_pc

AddSource(sources, name) ==
    IF \E j \in 1..Len(sources) : sources[j] = name THEN sources ELSE Append(sources, name)

\* Lines 131-137 / 163-169: `if valid:` save, count, remember, name the source.
SaveValid(valid, name) ==
    IF valid # <<>>
    THEN /\ db' = save_price_history(db, valid)
         /\ r_dates_added' = r_dates_added + Len(valid)
         /\ r_existing' = r_existing \cup RecDates(valid)
         /\ r_result' = [r_result EXCEPT !.sources_used = AddSource(@, name)]
         /\ r_written' = r_written \cup RecDates(valid)
    ELSE UNCHANGED <<db, r_dates_added, r_existing, r_result, r_written>>

\* The except clause of a source block: the error is recorded and the
\* block is left.
BlockFails(name, next_pc) ==
    /\ r_faults' = r_faults + 1
    /\ r_result' = [r_result EXCEPT !.errors = Append(@, <<name, "backfill failed">>)]
    /\ r_failed' = r_failed \cup {<<name, r_i>>}
    /\ r_i' = 1
    /\ r_pc' = next_pc
    /\ UNCHANGED <<db, r_dates_added, r_existing, r_written>>

\* yfinance loop, lines 123-124: the gap ends before EARLIEST_DATE.
YfSkipGap ==
    /\ r_pc = "yfinance"
    /\ r_gaps[r_i][2] < r_earliest
    /\ r_visited' = r_visited \cup {<<"yfinance", r_i>>}
    /\ LoopAdvance("csv")
    /\ UNCHANGED <<db, worldVars, r_run, r_existing, r_gaps, r_dates_added, r_result,
                   r_prev, r_db0, r_written, r_failed, r_faults, r_step>>
    /\ UNCHANGED runFrame

YfFetchStart == Max(r_gaps[r_i][1], r_earliest)

\* Line 129: the records yf_client.get_daily_prices returns for the gap.
YfRecords(w) == YfGetDailyPrices(w, YfFetchStart, r_gaps[r_i][2])

\* The same, validated (`if records:` - validate of an empty list is
\* empty as well).
YfValid(w) == validate(YfRecords(w))

\* What a fetch step did: the list it validated and the list it handed to
\* save_price_history (`if valid:`), `existing` as it was.
Step(records, valid) == [input |-> records, saved |-> valid, existing |-> r_existing]

\* yfinance loop, lines 126-140: fetch, validate, save.
YfFetchGap ==
    /\ r_pc = "yfinance"
    /\ r_gaps[r_i][2] >= r_earliest
    /\ \E f \in Resolutions(world, Max(YfFetchStart - yf_lead, r_earliest),
                            r_gaps[r_i][2], yf_down) :
          /\ world' = Resolve(world, f)
          /\ SaveValid(YfValid(world'), "yfinance")
          /\ r_step' = Step(YfRecords(world'), YfValid(world'))
    /\ r_visited' = r_visited \cup {<<"yfinance", r_i>>}
    /\ LoopAdvance("csv")
    /\ UNCHANGED <<yf_down, csv_down, yf_lead, r_earliest, r_run, r_gaps, r_prev,
                   r_db0, r_failed, r_faults>>
    /\ UNCHANGED runFrame

\* yfinance loop, line 133 raises (142-145 catch it): the rest of the
\* loop is abandoned.
YfSaveFails ==
    /\ r_pc = "yfinance"
    /\ FaultAllowed
    /\ r_gaps[r_i][2] >= r_earliest
    /\ \E f \in Resolutions(world, Max(YfFetchStart - yf_lead, r_earliest),
                            r_gaps[r_i][2], yf_down) :
          /\ world' = Resolve(world, f)
          /\ YfValid(world') # <<>>
          /\ r_step' = Step(YfRecords(world'), YfValid(world'))
    /\ r_visited' = r_visited \cup {<<"yfinance", r_i>>}
    /\ BlockFails("yfinance", "csv")
    /\ UNCHANGED <<yf_down, csv_down, yf_lead, r_earliest, r_run, r_gaps, r_prev, r_db0>>
    /\ UNCHANGED runFrame

\* CSV loop, lines 153-154: the gap starts at or after EARLIEST_DATE.
CsvSkipGap ==
    /\ r_pc = "csv"
    /\ r_gaps[r_i][1] >= r_earliest
    /\ r_visited' = r_visited \cup {<<"csv", r_i>>}
    /\ LoopAdvance("reconcile")
    /\ UNCHANGED <<db, worldVars, r_run, r_existing, r_gaps, r_dates_added, r_result,
                   r_prev, r_db0, r_written, r_failed, r_faults, r_step>>
    /\ UNCHANGED runFrame

CsvEnd == Min(r_gaps[r_i][2], r_earliest - 1)

\* Lines 159-162: the records of the seed file for the gap that are not
\* in `existing`.
CsvNewRecords(w) ==
    LET IsNew(r) == r.date \notin r_existing
    IN SelectSeq(CsvGetDailyPrices(w, r_gaps[r_i][1], CsvEnd), IsNew)

\* The same, validated (line 163).
CsvValid(w) == validate(CsvNewRecords(w))

\* CSV loop, lines 156-172: read, keep the new records, validate, save.
CsvFetchGap ==
    /\ r_pc = "csv"
    /\ r_gaps[r_i][1] < r_earliest
    /\ \E f \in Resolutions(world, r_gaps[r_i][1], CsvEnd, csv_down) :
          /\ world' = Resolve(world, f)
          /\ SaveValid(CsvValid(world'), "csv")
          /\ r_step' = Step(CsvNewRecords(world'), CsvValid(world'))
    /\ r_visited' = r_visited \cup {<<"csv", r_i>>}
    /\ LoopAdvance("reconcile")
    /\ UNCHANGED <<yf_down, csv_down, yf_lead, r_earliest, r_run, r_gaps, r_prev,
                   r_db0, r_failed, r_faults>>
    /\ UNCHANGED runFrame

\* CSV loop, line 165 raises (174-177 catch it).
CsvSaveFails ==
    /\ r_pc = "csv"
    /\ FaultAllowed
    /\ r_gaps[r_i][1] < r_earliest
    /\ \E f \in Resolutions(world, r_gaps[r_i][1], CsvEnd, csv_down) :
          /\ world' = Resolve(world, f)
          /\ CsvValid(world') # <<>>
          /\ r_step' = Step(CsvNewRecords(world'), CsvValid(world'))
    /\ r_visited' = r_visited \cup {<<"csv", r_i>>}
    /\ BlockFails("csv", "reconcile")
    /\ UNCHANGED <<yf_down, csv_down, yf_lead, r_earliest, r_run, r_gaps, r_prev, r_db0>>
    /\ UNCHANGED runFrame

\* str(s), str(e) of every remaining gap.
GapStrings(gaps) == [k \in 1..Len(gaps) |-> <<IsoFormat(gaps[k][1]), IsoFormat(gaps[k][2])>>]

RemainingGapsStale(table) == r_gaps

\* Lines 180-181: `existing = self.get_existing_dates()`,
\* `remaining = self.get_gaps(target_start, target_end, existing)`.
RemainingGaps(table) == get_gaps(1, RunDays, get_existing_dates(table))

\* Lines 179-192: re-read the persisted dates, re-detect, fill the result.
Reconcile ==
    /\ r_pc = "reconcile"
    /\ r_existing' = get_existing_dates(db)
    /\ r_result' = [r_result EXCEPT
                      !.dates_added = r_dates_added,
                      !.date_range = get_price_date_range(db),
                      !.gaps_remaining = GapStrings(RemainingGaps(db))]
    /\ r_pc' = "done"
    /\ UNCHANGED <<db, worldVars, r_run, r_gaps, r_i, r_dates_added, r_prev, r_db0,
                   r_written, r_visited, r_failed, r_faults, r_step>>
    /\ UNCHANGED runFrame

\* Line 180 or 183: a read of price_history raises; nothing catches it.
ReconcileReadFails ==
    /\ r_pc = "reconcile"
    /\ FaultAllowed
    /\ r_faults' = r_faults + 1
    /\ r_pc' = "raised"
    /\ UNCHANGED <<db, worldVars, r_run, r_existing, r_gaps, r_i, r_dates_added,
                   r_result, r_prev, r_db0, r_written, r_visited, r_failed, r_step>>
    /\ UNCHANGED runFrame

RunNext ==
    \/ RunStart
    \/ RunStartReadFails
    \/ YfSkipGap
    \/ YfFetchGap
    \/ YfSaveFails
    \/ CsvSkipGap
    \/ CsvFetchGap
    \/ CsvSaveFails
    \/ Reconcile
    \/ ReconcileReadFails

SpecRun == RunInit /\ [][RunNext]_vars

----------------------------------------------------------------------------
(* Claims about BackfillOrchestrator.run *)

Finished(n) == r_pc = "done" /\ r_run = n

\* C4: a second run against the same storage and the same sources reports
\* dates_added = 0, writes no record for a date that was not persisted
\* when it started, and returns the gaps_remaining of the first run.
C4_SecondRunAddsNothing ==
    Finished(2) =>
        /\ r_result.dates_added = 0
        /\ r_written \subseteq DOMAIN r_db0
        /\ r_result.gaps_remaining = r_prev.gaps_remaining

\* The source asked for a day of the target range.
SourceOf(d) == IF d >= r_earliest THEN "yfinance" ELSE "csv"

IsDown(src) == IF src = "yfinance" THEN yf_down ELSE csv_down

\* The source responsible for day d holds a valid record for it.
Supplied(d) ==
    /\ ~IsDown(SourceOf(d))
    /\ world[d] > 0
    /\ world[d] < PriceCap

FullySupplied(gap) == \A d \in gap[1]..gap[2] : Supplied(d)

GapSources(gap) == {SourceOf(d) : d \in gap[1]..gap[2]}

\* C5: when the sources together hold a valid record for every date of a
\* gap, then after run() every date of the gap is persisted and each
\* contributing source is listed once in sources_used, in priority order;
\* when that is so for every gap, gaps_remaining is empty.
C5_WaterfallFillsGap ==
    (Finished(1) /\ r_faults = 0 /\ r_gaps # <<>>) =>
        /\ \A k \in 1..Len(r_gaps) :
              FullySupplied(r_gaps[k]) =>
                 /\ \A d \in r_gaps[k][1]..r_gaps[k][2] : IsoFormat(d) \in DOMAIN db
                 /\ \A src \in GapSources(r_gaps[k]) :
                       \E j \in 1..Len(r_result.sources_used) :
                           r_result.sources_used[j] = src
        /\ r_result.sources_used \in
              {<<>>, <<"yfinance">>, <<"csv">>, <<"yfinance", "csv">>}
        /\ (\A k \in 1..Len(r_gaps) : FullySupplied(r_gaps[k]))
              => r_result.gaps_remaining = <<>>

\* The adapter of src was called for gaps[k] and went to its source.
ReachedSource(src, k) ==
    IF src = "yfinance"
    THEN /\ r_gaps[k][2] >= r_earliest
         /\ ~YfEmptyRange(Max(r_gaps[k][1], r_earliest), r_gaps[k][2])
    ELSE r_gaps[k][1] < r_earliest

Tagged(errors, src) == \E j \in 1..Len(errors) : errors[j][1] = src

OtherSource(src) == IF src = "yfinance" THEN "csv" ELSE "yfinance"

\* C6: when the fetches of one source fail (unreachable) while the other
\* source succeeds, dates_added counts only the records of the source that
\* succeeded, gaps_remaining reports the dates left unfilled, and errors
\* holds an entry tagged with the source that failed.  (Stated for sources
\* that return rows of the days asked for only.)
C6_OutageIsReported ==
    (Finished(1) /\ r_faults = 0 /\ r_gaps # <<>> /\ yf_lead = 0) =>
        \A src \in {"yfinance", "csv"} :
            ( /\ IsDown(src)
              /\ \E k \in 1..Len(r_gaps) : ReachedSource(src, k)
              /\ r_result.sources_used = <<OtherSource(src)>> )
            => /\ r_result.dates_added = Cardinality(DOMAIN db) - Cardinality(DOMAIN r_db0)
               /\ r_result.gaps_remaining =
                      GapStrings(get_gaps(1, RunDays, get_existing_dates(db)))
               /\ Tagged(r_result.errors, src)

\* C7: no exception leaves run(): every run ends by returning a result.
C7_RunNeverRaises == r_pc # "raised"

\* C8: when processing one gap with one source fails, the failure is
\* recorded in errors and every gap is still processed by that source and
\* by the next one.
C8_FailureIsIsolated ==
    (r_pc = "done" /\ r_gaps # <<>>) =>
        /\ \A x \in r_failed : Tagged(r_result.errors, x[1])
        /\ r_visited = {"yfinance", "csv"} \X (1..Len(r_gaps))

\* A run that found gaps has returned.
FoundGapsAndReturned == r_pc = "done" /\ r_gaps # <<>>

\* C22: the gaps_remaining of a run that found gaps is gap detection over
\* the target range applied to the dates persisted at the end of the run;
\* the final re-check only reports: from the re-check on, no source is
\* asked again and nothing is written.
C22_RemainingIsRecheck ==
    /\ [](FoundGapsAndReturned =>
            r_result.gaps_remaining =
                GapStrings(get_gaps(1, RunDays, DOMAIN db)))
    /\ [][r_pc = "reconcile" =>
            /\ world' = world
            /\ db' = db
            /\ r_visited' = r_visited
            /\ r_written' = r_written]_vars

\* A run filled one of its gaps and reported another one as remaining.
C22_Witness ==
    /\ FoundGapsAndReturned
    /\ r_written # {}
    /\ r_result.gaps_remaining # <<>>
    /\ r_result.gaps_remaining # GapStrings(r_gaps)

\* C25: every list run() hands to save_price_history is what validate
\* returned in the same step, so no record written has a price <= 0 or
\* >= 10,000,000 or lacks a date, and no batch holds two records of one
\* date.
C25_WritesAreValidated ==
    r_step.saved # <<>> =>
        /\ r_step.saved = validate(r_step.input)
        /\ \A i \in 1..Len(r_step.saved) :
              /\ ~(r_step.saved[i].price_usd <= 0)
              /\ ~(r_step.saved[i].price_usd >= PriceCap)
              /\ r_step.saved[i].date \notin {NoDateStr, EmptyStr}
        /\ \A i, j \in 1..Len(r_step.saved) :
              r_step.saved[i].date = r_step.saved[j].date => i = j

\* A step wrote the records of a source but for the one beyond the cap.
C25_Witness ==
    /\ r_step.saved # <<>>
    /\ Len(r_step.saved) < Len(r_step.input)
    /\ \E i \in 1..Len(r_step.input) : r_step.input[i].price_usd >= PriceCap
    /\ RecDates(r_step.saved) \subseteq DOMAIN db

\* The range of date strings rem lies inside the gap.
WithinGap(rem, gap) ==
    /\ ~StrLess(rem[1], IsoFormat(gap[1]))
    /\ ~StrLess(IsoFormat(gap[2]), rem[2])

\* C26: run() never deletes: no step removes a date from price_history,
\* the dates persisted when a run ends include those persisted when it
\* started, and every range of gaps_remaining lies inside one of the gaps
\* detected at the start.
C26_NeverDeletes ==
    /\ [][DOMAIN db \subseteq DOMAIN db']_vars
    /\ [](r_run >= 1 => DOMAIN r_db0 \subseteq DOMAIN db)
    /\ [](FoundGapsAndReturned =>
            \A n \in 1..Len(r_result.gaps_remaining) :
                \E k \in 1..Len(r_gaps) :
                    WithinGap(r_result.gaps_remaining[n], r_gaps[k]))

\* A gap was filled in part: what remains of it is shorter than it was.
C26_Witness ==
    /\ FoundGapsAndReturned
    /\ DOMAIN r_db0 # {}
    /\ \E n \in 1..Len(r_result.gaps_remaining) :
          \A k \in 1..Len(r_gaps) :
              r_result.gaps_remaining[n] # GapStrings(r_gaps)[k]

\* C27: whatever records the adapters return (dated outside the gap asked
\* for or on dates already persisted as well), dates_added of a run is the
\* number of dates persisted when it ends and not when it started.
C27_DatesAddedCountsNewDates ==
    r_pc = "done" =>
        r_result.dates_added = Cardinality((DOMAIN db) \ (DOMAIN r_db0))

\* C28: run() leaves the record of every date that was persisted before
\* it, or earlier in it, as it is: a step writes records only for dates
\* that are not in `existing`.
C28_PersistedUntouched ==
    /\ r_run >= 1 => \A date \in DOMAIN r_db0 : db[date] = r_db0[date]
    /\ RecDates(r_step.saved) \cap r_step.existing = {}

====
